---- MODULE Spec2Model ----
(***************************************************************************)
(* A model of sarc-rs: the SARC archive reader (src/parse.rs) and writer   *)
(* (src/writer.rs) with the shared headers and helpers of src/lib.rs.      *)
(*                                                                         *)
(* Archives are modelled byte for byte.  A byte buffer is a sequence of    *)
(* values 0..255; the byte at offset o of the code is element o + 1.       *)
(* A u32 is kept as its four bytes, least significant first, so that the   *)
(* full 32-bit range (wrapping hashes, corrupted offsets) is covered;      *)
(* sizes and positions (usize) that stay small are plain naturals.         *)
(* The host is little-endian (Endian::read in Sarc::new decodes the BOM    *)
(* in native byte order).                                                  *)
(***************************************************************************)
EXTENDS Integers, Sequences, FiniteSets, TLC

VARIABLES
    writer,     \* the SarcWriter
    out,        \* what the last write_to_bytes returned since the last mutation
    prev,       \* what the write_to_bytes before that returned (no mutation between)
    origin,     \* the archive the writer was taken from by from_sarc, and how it was made
    buf,        \* the byte buffer handed to Sarc::new
    sarc,       \* the result of Sarc::new
    res         \* the result of the last reader call

vars == <<writer, out, prev, origin, buf, sarc, res>>

----------------------------------------------------------------------------
(* Integers and bytes                                                      *)

Max(a, b) == IF a >= b THEN a ELSE b

\* `n as u32` for a usize n below 2^31
ToU32(n) == <<n % 256, (n \div 256) % 256, (n \div 65536) % 256, (n \div 16777216) % 256>>

\* A u32 as a natural; used on values known to lie inside a buffer
U32Nat(u) == u[1] + 256 * u[2] + 65536 * u[3] + 16777216 * u[4]

U32Lt(a, b) ==
    \/ a[4] < b[4]
    \/ a[4] = b[4] /\ a[3] < b[3]
    \/ a[4] = b[4] /\ a[3] = b[3] /\ a[2] < b[2]
    \/ a[4] = b[4] /\ a[3] = b[3] /\ a[2] = b[2] /\ a[1] < b[1]

\* a + b on u32: the wrapped sum and whether it overflowed
U32Add(a, b) ==
    LET s0 == a[1] + b[1]
        s1 == a[2] + b[2] + (s0 \div 256)
        s2 == a[3] + b[3] + (s1 \div 256)
        s3 == a[4] + b[4] + (s2 \div 256)
    IN  [sum |-> <<s0 % 256, s1 % 256, s2 % 256, s3 % 256>>, overflow |-> s3 >= 256]

\* h.wrapping_mul(m).wrapping_add(c) on u32, c a byte
U32MulAdd(h, m, c) ==
    LET s0 == h[1] * m[1] + c
        s1 == h[1] * m[2] + h[2] * m[1] + (s0 \div 256)
        s2 == h[1] * m[3] + h[2] * m[2] + h[3] * m[1] + (s1 \div 256)
        s3 == h[1] * m[4] + h[2] * m[3] + h[3] * m[2] + h[4] * m[1] + (s2 \div 256)
    IN  <<s0 % 256, s1 % 256, s2 % 256, s3 % 256>>

RECURSIVE BitAnd(_, _)
BitAnd(x, y) ==
    IF x = 0 \/ y = 0 THEN 0
    ELSE (x % 2) * (y % 2) + 2 * BitAnd(x \div 2, y \div 2)

RECURSIVE gcd(_, _)
gcd(m, n) == IF n = 0 THEN m ELSE gcd(n, m % n)

lcm(a, b) == IF a = 0 /\ b = 0 THEN 0 ELSE a * (b \div gcd(a, b))

IsPowerOfTwo(x) == x \in {2^k : k \in 0..30}

----------------------------------------------------------------------------
(* src/lib.rs                                                              *)

SARC_MAGIC == <<83, 65, 82, 67>>
SFAT_MAGIC == <<83, 70, 65, 84>>
SFNT_MAGIC == <<83, 70, 78, 84>>

RECURSIVE hash_loop(_, _, _, _)
hash_loop(multiplier, bytes, i, hash) ==
    IF i < Len(bytes)
    THEN hash_loop(multiplier, bytes, i + 1, U32MulAdd(hash, multiplier, bytes[i + 1]))
    ELSE hash

hash_name(multiplier, name) == hash_loop(multiplier, name, 0, ToU32(0))

\* The two byte orders taken for each other
EndianOfU16_swapped(v) ==
    IF v = 65534 THEN "Little" ELSE IF v = 65279 THEN "Big" ELSE "invalid"

\* The enum values: Big = 0xFFFE, Little = 0xFEFF
EndianOfU16(v) ==
    IF v = 65534 THEN "Big" ELSE IF v = 65279 THEN "Little" ELSE "invalid"

is_valid_alignment(alignment) ==
    alignment /= 0 /\ BitAnd(alignment, alignment - 1) = 0

----------------------------------------------------------------------------
(* Encoding and the in-memory sink (Cursor<&mut Vec<u8>>)                  *)

U16Bytes(endian, v) ==
    IF endian = "Big" THEN <<(v \div 256) % 256, v % 256>>
    ELSE <<v % 256, (v \div 256) % 256>>

U32Bytes(endian, u) ==
    IF endian = "Big" THEN <<u[4], u[3], u[2], u[1]>> ELSE u

\* impl BinWrite for Endian
EndianBytes(endian) == IF endian = "Big" THEN <<254, 255>> ELSE <<255, 254>>

NewCursor == [buf |-> <<>>, pos |-> 0]

Seek(c, p) == [c EXCEPT !.pos = p]

\* A write of no bytes never reaches the sink; any other write first zero-fills
\* the vector up to the position, then overwrites or extends it.
\* (The cursor and the bytes are bound once, so that they are evaluated once.)
CursorWrite(c0, bytes0) ==
    CHOOSE r \in
        { IF bytes = <<>> THEN c
          ELSE LET end == c.pos + Len(bytes)
                   len == Len(c.buf)
                   kept == IF c.pos <= len THEN SubSeq(c.buf, 1, c.pos)
                           ELSE c.buf \o [i \in 1..(c.pos - len) |-> 0]
               IN  [buf |-> kept \o bytes \o SubSeq(c.buf, end + 1, len),
                    pos |-> end] : c \in {c0}, bytes \in {bytes0} } : TRUE

ResHeaderBytes(endian, file_size, data_offset) ==
    SARC_MAGIC \o U16Bytes(endian, 20) \o EndianBytes(endian)
        \o U32Bytes(endian, file_size) \o U32Bytes(endian, data_offset)
        \o U16Bytes(endian, 256) \o U16Bytes(endian, 0)

ResFatHeaderBytes(endian, num_files, hash_multiplier) ==
    SFAT_MAGIC \o U16Bytes(endian, 12) \o U16Bytes(endian, num_files)
        \o U32Bytes(endian, hash_multiplier)

ResFatEntryBytes(endian, name_hash, rel_name_opt_offset, data_begin, data_end) ==
    U32Bytes(endian, name_hash) \o U32Bytes(endian, rel_name_opt_offset)
        \o U32Bytes(endian, data_begin) \o U32Bytes(endian, data_end)

\* The SFNT header without its reserved field
ResFntHeaderBytes_short(endian) ==
    SFNT_MAGIC \o U16Bytes(endian, 8)

ResFntHeaderBytes(endian) ==
    SFNT_MAGIC \o U16Bytes(endian, 8) \o U16Bytes(endian, 0)

----------------------------------------------------------------------------
(* src/writer.rs: the static tables                                        *)

\* File extensions, as the bytes of their names
ExtKsky == <<107, 115, 107, 121>>
ExtBksky == <<98, 107, 115, 107, 121>>
ExtGtx == <<103, 116, 120>>
ExtSharcb == <<115, 104, 97, 114, 99, 98>>
ExtSharc == <<115, 104, 97, 114, 99>>
ExtBaglmf == <<98, 97, 103, 108, 109, 102>>
ExtBffnt == <<98, 102, 102, 110, 116>>
ExtBas == <<98, 97, 115>>
ExtBfres == <<98, 102, 114, 101, 115>>
ExtAglatex == <<97, 103, 108, 97, 116, 101, 120>>
ExtBaglatex == <<98>> \o ExtAglatex
ExtAglblm == <<97, 103, 108, 98, 108, 109>>
ExtBaglblm == <<98>> \o ExtAglblm
ExtQ == <<113>>

\* data/botw_resource_factory_info.tsv, first column: the table is data outside
\* the sources; these entries stand for it.
get_botw_factory_names == {ExtBas, ExtBfres, ExtSharc}

\* data/aglenv_file_info.json: the table is data outside the sources; these two
\* entries stand for it, one with an alignment and one without (align < 0).
AGLENV_INFO ==
    << [ext |-> ExtAglatex, bext |-> ExtBaglatex, align |-> 8],
       [ext |-> ExtAglblm, bext |-> ExtBaglblm, align |-> 0 - 1] >>

RECURSIVE AglEnvFrom(_)
AglEnvFrom(i) ==
    IF i > Len(AGLENV_INFO) THEN <<>>
    ELSE LET e == AGLENV_INFO[i]
         IN  (IF e.align >= 0 THEN << <<e.ext, e.align>>, <<e.bext, e.align>> >> ELSE <<>>)
                 \o AglEnvFrom(i + 1)

get_agl_env_alignment_requirements == AglEnvFrom(1)

----------------------------------------------------------------------------
(* src/writer.rs: helpers                                                  *)

\* ((pos as i64 + alignment as i64 - 1) & (0 - alignment as i64)) as usize.
\* In two's complement 0 - a is the complement of a - 1, so x & (0 - a) is x with
\* the bits of a - 1 cleared, for every a >= 1 (a power of two or not); for a = 0
\* the mask is 0.
align(pos, alignment) ==
    IF alignment = 0 THEN 0
    ELSE LET x == pos + alignment - 1
         IN  x - BitAnd(x, alignment - 1)

MapInsert(m, k, v) ==
    [e \in (DOMAIN m) \cup {k} |-> IF e = k THEN v ELSE m[e]]

EmptyMap == [e \in {} |-> 0]

SarcWriter_new(endian) ==
    [endian |-> endian,
     legacy |-> FALSE,
     hash_multiplier |-> ToU32(101),
     min_alignment |-> 4,
     alignment_map |-> EmptyMap,
     files |-> <<>>]

add_alignment_requirement(w, ext, alignment) ==
    IF ~is_valid_alignment(alignment)
    THEN [ok |-> FALSE, writer |-> w]
    ELSE [ok |-> TRUE, writer |-> [w EXCEPT !.alignment_map = MapInsert(@, ext, alignment)]]

set_min_alignment(w, alignment) ==
    IF ~is_valid_alignment(alignment)
    THEN [ok |-> FALSE, writer |-> w]
    ELSE [ok |-> TRUE, writer |-> [w EXCEPT !.min_alignment = alignment]]

\* The calls of add_default_alignments, in order
DefaultRequirements(endian) ==
    get_agl_env_alignment_requirements
        \o << <<ExtKsky, 8>>, <<ExtKsky, 8>>, <<ExtBksky, 8>>, <<ExtGtx, 8192>>,
              <<ExtSharcb, 4096>>, <<ExtSharc, 4096>>, <<ExtBaglmf, 128>>,
              <<ExtBffnt, IF endian = "Big" THEN 8192 ELSE 4096>> >>

RECURSIVE AddRequirementsFrom(_, _, _)
AddRequirementsFrom(w, reqs, i) ==
    IF i > Len(reqs) THEN w
    ELSE AddRequirementsFrom(
             add_alignment_requirement(w, reqs[i][1], reqs[i][2]).writer, reqs, i + 1)

add_default_alignments(w) == AddRequirementsFrom(w, DefaultRequirements(w.endian), 1)

YAZ0_MAGIC == <<89, 97, 122, 48>>
FLIM_MAGIC == <<70, 76, 73, 77>>

is_file_sarc(data) ==
    /\ Len(data) >= 32
    /\ \/ SubSeq(data, 1, 4) = SARC_MAGIC
       \/ SubSeq(data, 1, 4) = YAZ0_MAGIC /\ SubSeq(data, 18, 21) = SARC_MAGIC

\* reader.read_be() decodes the two bytes at 0xC as a big-endian u16 and matches
\* it against the enum values; the u32 at 0x1C is then read in that endianness.
\* 1 << data[0xE] on a usize takes the shift amount modulo 64 where overflow
\* checks are off (with them on, an amount of 64 or more aborts).
get_alignment_for_new_binary_file(data) ==
    IF Len(data) <= 32 THEN 1
    ELSE LET endian == EndianOfU16(data[13] * 256 + data[14])
             file_size == IF endian = "Big"
                          THEN <<data[32], data[31], data[30], data[29]>>
                          ELSE <<data[29], data[30], data[31], data[32]>>
         IN  IF endian = "invalid" THEN 1
             ELSE IF file_size /= ToU32(Len(data)) THEN 1
             ELSE 2 ^ (data[15] % 64)

get_alignment_for_cafe_bflim(data) ==
    IF Len(data) <= 40 \/ SubSeq(data, Len(data) - 40 + 1, Len(data) - 36) /= FLIM_MAGIC
    THEN 1
    ELSE data[Len(data) - 8 + 1] * 256 + data[Len(data) - 8 + 2]

\* name.rfind('.') and the slice after it
ExtensionOf(name) ==
    LET dots == {i \in 1..Len(name) : name[i] = 46}
    IN  IF dots = {} THEN <<>>
        ELSE LET idx == CHOOSE i \in dots : \A j \in dots : j <= i
             IN  SubSeq(name, idx + 1, Len(name))

get_alignment_for_file(w, name, data) ==
    LET ext == ExtensionOf(name)
        a0 == w.min_alignment
        a1 == IF ext \in DOMAIN w.alignment_map THEN lcm(a0, w.alignment_map[ext]) ELSE a0
        a2 == IF w.legacy /\ is_file_sarc(data) THEN lcm(a1, 8192) ELSE a1
        a3 == lcm(a2, get_alignment_for_new_binary_file(data))
        a4 == IF w.endian = "Big" THEN lcm(a3, get_alignment_for_cafe_bflim(data)) ELSE a3
    IN  IF w.legacy \/ ext \notin get_botw_factory_names THEN a4 ELSE a2

----------------------------------------------------------------------------
(* src/writer.rs: SarcWriter::write                                        *)

\* A sort that is not stable: a file goes before the files of equal hash
RECURSIVE sort_by_unstable(_, _)
sort_by_unstable(files, multiplier) ==
    IF files = <<>> THEN <<>>
    ELSE LET init == sort_by_unstable(SubSeq(files, 1, Len(files) - 1), multiplier)
             x == files[Len(files)]
             hx == hash_name(multiplier, x.name)
             k == Cardinality({i \in 1..Len(init) :
                                  U32Lt(hash_name(multiplier, init[i].name), hx)})
         IN  SubSeq(init, 1, k) \o <<x>> \o SubSeq(init, k + 1, Len(init))

\* IndexMap::sort_by is a stable sort; the comparison is on the name hashes.
RECURSIVE sort_by(_, _)
sort_by(files, multiplier) ==
    IF files = <<>> THEN <<>>
    ELSE LET init == sort_by(SubSeq(files, 1, Len(files) - 1), multiplier)
             x == files[Len(files)]
             hx == hash_name(multiplier, x.name)
             k == Cardinality({i \in 1..Len(init) :
                                  ~U32Lt(hx, hash_name(multiplier, init[i].name))})
         IN  SubSeq(init, 1, k) \o <<x>> \o SubSeq(init, k + 1, Len(init))

\* 1 << 24 | (rel_string_offset / 4)
RelNameOptOffset(rel_string_offset) ==
    LET v == ToU32(rel_string_offset \div 4)
    IN  <<v[1], v[2], v[3], IF v[4] % 2 = 0 THEN v[4] + 1 ELSE v[4]>>

\* The loop that writes the FAT entries (lines 158-175)
RECURSIVE WriteFatEntries(_, _, _, _, _, _)
WriteFatEntries(w, alignments, i, rel_string_offset, rel_data_offset, c) ==
    IF i > Len(w.files) THEN c
    ELSE LET name == w.files[i].name
             data == w.files[i].data
             offset == align(rel_data_offset, alignments[i])
             entry == ResFatEntryBytes(w.endian,
                                       hash_name(w.hash_multiplier, name),
                                       RelNameOptOffset(rel_string_offset),
                                       ToU32(offset),
                                       ToU32(offset + Len(data)))
         IN  WriteFatEntries(w, alignments, i + 1,
                             rel_string_offset + align(Len(name) + 1, 4),
                             offset + Len(data),
                             CursorWrite(c, entry))

\* The loop that writes the name table (lines 184-189)
RECURSIVE WriteNames(_, _, _)
WriteNames(files, i, c) ==
    IF i > Len(files) THEN c
    ELSE LET c1 == CursorWrite(CursorWrite(c, files[i].name), <<0>>)
         IN  WriteNames(files, i + 1, Seek(c1, align(c1.pos, 4)))

\* The loop that writes the payloads (lines 197-201)
RECURSIVE WriteData(_, _, _, _)
WriteData(files, alignments, i, c) ==
    IF i > Len(files) THEN c
    ELSE WriteData(files, alignments, i + 1,
                   CursorWrite(Seek(c, align(c.pos, alignments[i])), files[i].data))

RECURSIVE FoldLcm(_, _, _)
FoldLcm(alignments, i, acc) ==
    IF i > Len(alignments) THEN acc
    ELSE FoldLcm(alignments, i + 1, lcm(acc, alignments[i]))

\* The writer after the call and the bytes in the sink
write(w0) ==
    LET w == add_default_alignments(
                 [w0 EXCEPT !.files = sort_by(w0.files, w0.hash_multiplier)])
        n == Len(w.files)
        alignments == [i \in 1..n |->
                          get_alignment_for_file(w, w.files[i].name, w.files[i].data)]
        c1 == CursorWrite(Seek(NewCursor, 20),
                          ResFatHeaderBytes(w.endian, n % 65536, w.hash_multiplier))
        c2 == WriteFatEntries(w, alignments, 1, 0, 0, c1)
        c3 == CursorWrite(c2, ResFntHeaderBytes(w.endian))
        c4 == WriteNames(w.files, 1, c3)
        required_alignment == FoldLcm(alignments, 1, 1)
        c5 == Seek(c4, align(c4.pos, required_alignment))
        data_offset_begin == ToU32(c5.pos)
        c6 == WriteData(w.files, alignments, 1, c5)
        file_size == ToU32(c6.pos)
        c7 == CursorWrite(Seek(c6, 0), ResHeaderBytes(w.endian, file_size, data_offset_begin))
    IN  [writer |-> w, bytes |-> c7.buf, alignments |-> alignments]

write_to_bytes(w) == write(w)

----------------------------------------------------------------------------
(* src/parse.rs: decoding                                                  *)

\* The u16 and u32 at byte offset pos, in the given endianness
ReadU16(endian, data, pos) ==
    IF endian = "Big" THEN data[pos + 1] * 256 + data[pos + 2]
    ELSE data[pos + 1] + 256 * data[pos + 2]

ReadU32(endian, data, pos) ==
    IF endian = "Big"
    THEN <<data[pos + 4], data[pos + 3], data[pos + 2], data[pos + 1]>>
    ELSE <<data[pos + 1], data[pos + 2], data[pos + 3], data[pos + 4]>>

\* u mod g for a small g > 0
U32Mod(u, g) ==
    ((((((u[4] % g) * 256 + u[3]) % g) * 256 + u[2]) % g) * 256 + u[1]) % g

\* Results: Ok with a value, Err with the SarcError variant (and, for
\* InvalidData, the field it names), or Panic when the call aborts.
Ok(v) == [kind |-> "Ok", value |-> v, err |-> "", field |-> ""]
Err(e) == [kind |-> "Err", value |-> <<>>, err |-> e, field |-> ""]
InvalidData(f) == [kind |-> "Err", value |-> <<>>, err |-> "InvalidData", field |-> f]
Panic == [kind |-> "Panic", value |-> <<>>, err |-> "", field |-> ""]
NoResult == [kind |-> "None", value |-> <<>>, err |-> "", field |-> ""]

\* Option values: <<>> is None, <<v>> is Some(v)
None == <<>>
Some(v) == <<v>>

\* The position of the first 0 in data from offset `from` on, relative to `from`;
\* -1 when there is none
find_null(data, from) ==
    LET zeros == {i \in (from + 1)..Len(data) : data[i] = 0}
    IN  IF zeros = {} THEN 0 - 1
        ELSE (CHOOSE i \in zeros : \A j \in zeros : i <= j) - from - 1

\* std::str::from_utf8 accepts exactly the well-formed UTF-8 sequences
IsCont(b) == b >= 128 /\ b <= 191
RECURSIVE ValidUtf8From(_, _)
ValidUtf8From(s, i) ==
    IF i > Len(s) THEN TRUE
    ELSE LET b == s[i]
             Has(k) == i + k <= Len(s)
         IN  IF b < 128 THEN ValidUtf8From(s, i + 1)
             ELSE IF b >= 194 /\ b <= 223
             THEN Has(1) /\ IsCont(s[i + 1]) /\ ValidUtf8From(s, i + 2)
             ELSE IF b >= 224 /\ b <= 239
             THEN /\ Has(2)
                  /\ IsCont(s[i + 1]) /\ IsCont(s[i + 2])
                  /\ (b = 224 => s[i + 1] >= 160)
                  /\ (b = 237 => s[i + 1] <= 159)
                  /\ ValidUtf8From(s, i + 3)
             ELSE IF b >= 240 /\ b <= 244
             THEN /\ Has(3)
                  /\ IsCont(s[i + 1]) /\ IsCont(s[i + 2]) /\ IsCont(s[i + 3])
                  /\ (b = 240 => s[i + 1] >= 144)
                  /\ (b = 244 => s[i + 1] <= 143)
                  /\ ValidUtf8From(s, i + 4)
             ELSE FALSE

from_utf8_ok(s) == ValidUtf8From(s, 1)

----------------------------------------------------------------------------
(* src/parse.rs: Sarc::new                                                 *)

\* Every read of a header fails with a ParseError when the buffer ends before
\* the header does.
Sarc_new(data) ==
    IF Len(data) < 8 THEN Err("ParseError")
    ELSE LET endian == EndianOfU16(data[7] + 256 * data[8])
         IN
    IF endian = "invalid" THEN Err("ParseError")
    ELSE IF Len(data) < 20 THEN Err("ParseError")
    ELSE IF SubSeq(data, 1, 4) /= SARC_MAGIC THEN InvalidData("SARC magic")
    ELSE IF ReadU16(endian, data, 16) /= 256 THEN InvalidData("SARC version")
    ELSE IF ReadU16(endian, data, 4) /= 20 THEN InvalidData("SARC header size")
    ELSE IF Len(data) < 32 THEN Err("ParseError")
    ELSE IF SubSeq(data, 21, 24) /= SFAT_MAGIC THEN InvalidData("SFAT magic")
    ELSE IF ReadU16(endian, data, 24) /= 12 THEN InvalidData("SFAT header size")
    ELSE IF ReadU16(endian, data, 26) \div 16384 /= 0 THEN InvalidData("SFAT file count")
    ELSE LET num_files == ReadU16(endian, data, 26)
             entries_offset == 32
             hash_multiplier == ReadU32(endian, data, 28)
             data_offset == ReadU32(endian, data, 12)
             fnt_header_offset == entries_offset + 16 * num_files
             names_offset == fnt_header_offset + 8
         IN
    IF Len(data) < fnt_header_offset + 8 THEN Err("ParseError")
    ELSE IF SubSeq(data, fnt_header_offset + 1, fnt_header_offset + 4) /= SFNT_MAGIC
    THEN InvalidData("SFNT magic")
    ELSE IF ReadU16(endian, data, fnt_header_offset + 4) /= 8
    THEN InvalidData("SFNT header size")
    ELSE IF U32Lt(data_offset, ToU32(names_offset)) THEN InvalidData("name table offset")
    ELSE Ok([data |-> data,
             data_offset |-> data_offset,
             endian |-> endian,
             entries_offset |-> entries_offset,
             num_files |-> num_files,
             hash_multiplier |-> hash_multiplier,
             names_offset |-> names_offset])

file_count(s) == s.num_files

ReadFatEntry(s, index) ==
    LET o == s.entries_offset + 16 * index
    IN  [name_hash |-> ReadU32(s.endian, s.data, o),
         rel_name_opt_offset |-> ReadU32(s.endian, s.data, o + 4),
         data_begin |-> ReadU32(s.endian, s.data, o + 8),
         data_end |-> ReadU32(s.endian, s.data, o + 12)]

----------------------------------------------------------------------------
(* src/parse.rs: the lookups.  overflow_checks says whether the build aborts *)
(* on integer overflow (debug) or wraps (release).                          *)

\* The name of an entry (lines 196-205): Ok(Option), an error, or a panic when
\* the slice self.data[name_offset..] starts past the end of the buffer
EntryName(s, entry) ==
    IF entry.rel_name_opt_offset = ToU32(0) THEN Ok(None)
    ELSE LET rel == entry.rel_name_opt_offset
             name_offset == s.names_offset + (rel[1] + 256 * rel[2] + 65536 * rel[3]) * 4
             term_pos == find_null(s.data, name_offset)
         IN  IF name_offset > Len(s.data) THEN Panic
             ELSE IF term_pos < 0 THEN Err("UnterminatedStringError")
             ELSE LET name == SubSeq(s.data, name_offset + 1, name_offset + term_pos)
                  IN  IF from_utf8_ok(name) THEN Ok(Some(name))
                      ELSE Err("InvalidFileName")

\* The payload slice of an entry (lines 206-207)
EntryData(s, entry, overflow_checks) ==
    LET b == U32Add(s.data_offset, entry.data_begin)
        e == U32Add(s.data_offset, entry.data_end)
        len == ToU32(Len(s.data))
    IN  IF overflow_checks /\ (b.overflow \/ e.overflow) THEN Panic
        ELSE IF U32Lt(e.sum, b.sum) THEN Panic
        ELSE IF U32Lt(len, e.sum) THEN Panic
        ELSE Ok(SubSeq(s.data, U32Nat(b.sum) + 1, U32Nat(e.sum)))

file_at(s, index, overflow_checks) ==
    IF index >= s.num_files THEN Err("OutOfRange")
    ELSE LET entry_offset == s.entries_offset + 16 * index
         IN
    IF entry_offset > Len(s.data) THEN Panic
    ELSE IF entry_offset + 16 > Len(s.data) THEN Err("ParseError")
    ELSE LET entry == ReadFatEntry(s, index)
             name == EntryName(s, entry)
             data == EntryData(s, entry, overflow_checks)
         IN  IF name.kind /= "Ok" THEN name
             ELSE IF data.kind /= "Ok" THEN data
             ELSE Ok([name |-> name.value, data |-> data.value])

\* The binary search of get_file on a <= b, both below 2^16.  When m = 0 and the
\* needle is smaller, b = m - 1 overflows: the call aborts with overflow checks
\* on; with them off b wraps to 2^32 - 1, a is still 0, the next probe is
\* m = (2^32 - 1) / 2 and the read at 0x20 + 0x10 * m is past the end of the
\* buffer, which is a ParseError.
RECURSIVE get_file_search(_, _, _, _, _)
get_file_search(s, needle_hash, a, b, overflow_checks) ==
    IF a > b THEN Ok(None)
    ELSE LET m == (a + b) \div 2
             o == s.entries_offset + 16 * m
         IN
    IF o + 4 > Len(s.data) THEN Err("ParseError")
    ELSE LET hash == ReadU32(s.endian, s.data, o)
         IN
    IF U32Lt(needle_hash, hash)
    THEN IF m = 0 THEN (IF overflow_checks THEN Panic ELSE Err("ParseError"))
         ELSE get_file_search(s, needle_hash, a, m - 1, overflow_checks)
    ELSE IF U32Lt(hash, needle_hash)
    THEN get_file_search(s, needle_hash, m + 1, b, overflow_checks)
    ELSE LET f == file_at(s, m, overflow_checks)
         IN  IF f.kind = "Ok" THEN Ok(Some(f.value)) ELSE f

get_file(s, file, overflow_checks) ==
    IF s.num_files = 0 THEN Ok(None)
    ELSE get_file_search(s, hash_name(s.hash_multiplier, file), 0, s.num_files - 1,
                         overflow_checks)

\* (0..count).flat_map(|i| self.file_at(i).ok()), run to its end: the files of
\* the entries file_at accepts, in FAT order; a panic of file_at ends it
RECURSIVE files_from(_, _, _)
files_from(s, i, overflow_checks) ==
    IF i >= s.num_files THEN Ok(<<>>)
    ELSE LET f == file_at(s, i, overflow_checks)
             rest == files_from(s, i + 1, overflow_checks)
         IN  IF f.kind = "Panic" THEN Panic
             ELSE IF rest.kind = "Panic" THEN Panic
             ELSE IF f.kind = "Ok" THEN Ok(<<f.value>> \o rest.value)
             ELSE rest

files(s, overflow_checks) == files_from(s, 0, overflow_checks)

MIN_ALIGNMENT == 4

\* num::integer::gcd(gcd, x) with x a u32: gcd(g, x) = gcd(g, x mod g), g > 0
RECURSIVE guess_loop(_, _, _, _)
guess_loop(s, i, g, overflow_checks) ==
    IF i >= s.num_files THEN Ok(g)
    ELSE LET entry == ReadFatEntry(s, i)
             x == U32Add(s.data_offset, entry.data_begin)
         IN  IF overflow_checks /\ x.overflow THEN Panic
             ELSE guess_loop(s, i + 1, gcd(g, U32Mod(x.sum, g)), overflow_checks)

guess_min_alignment(s, overflow_checks) ==
    LET r == guess_loop(s, 0, MIN_ALIGNMENT, overflow_checks)
    IN  IF r.kind /= "Ok" THEN r
        ELSE IF ~is_valid_alignment(r.value) THEN Ok(MIN_ALIGNMENT)
        ELSE r

\* are_files_equal: the two readers hold the same files
are_files_equal(sarc1, sarc2, overflow_checks) ==
    LET f1 == files(sarc1, overflow_checks)
        f2 == files(sarc2, overflow_checks)
    IN  IF f1.kind = "Panic" \/ f2.kind = "Panic" THEN Panic
        ELSE IF file_count(sarc1) /= file_count(sarc2) THEN Ok(FALSE)
        ELSE Ok(\A i \in 1..(IF Len(f1.value) < Len(f2.value)
                              THEN Len(f1.value) ELSE Len(f2.value)) :
                    f1.value[i] = f2.value[i])

----------------------------------------------------------------------------
(* src/writer.rs: SarcWriter::from_sarc                                    *)

\* IndexMap::insert: a new key is appended, a known key keeps its place
IndexMapInsert(map, name, data) ==
    IF \E i \in 1..Len(map) : map[i].name = name
    THEN [i \in 1..Len(map) |->
             IF map[i].name = name THEN [name |-> name, data |-> data] ELSE map[i]]
    ELSE Append(map, [name |-> name, data |-> data])

RECURSIVE CollectFiles(_, _, _)
CollectFiles(fs, i, acc) ==
    IF i > Len(fs) THEN acc
    ELSE CollectFiles(fs, i + 1,
                      IF fs[i].name = None THEN acc
                      ELSE IndexMapInsert(acc, fs[i].name[1], fs[i].data))

\* from_sarc leaving the writer in legacy mode
from_sarc_legacy(s, overflow_checks) ==
    LET fs == files(s, overflow_checks)
        g == guess_min_alignment(s, overflow_checks)
    IN  IF fs.kind = "Panic" \/ g.kind = "Panic" THEN Panic
        ELSE Ok([endian |-> s.endian,
                 legacy |-> TRUE,
                 hash_multiplier |-> ToU32(101),
                 min_alignment |-> g.value,
                 alignment_map |-> EmptyMap,
                 files |-> CollectFiles(fs.value, 1, <<>>)])

from_sarc(s, overflow_checks) ==
    LET fs == files(s, overflow_checks)
        g == guess_min_alignment(s, overflow_checks)
    IN  IF fs.kind = "Panic" \/ g.kind = "Panic" THEN Panic
        ELSE Ok([endian |-> s.endian,
                 legacy |-> FALSE,
                 hash_multiplier |-> ToU32(101),
                 min_alignment |-> g.value,
                 alignment_map |-> EmptyMap,
                 files |-> CollectFiles(fs.value, 1, <<>>)])

----------------------------------------------------------------------------
(* The inputs of the model                                                 *)

MaxFiles == 2
MaxPatches == 1

Zeros(n) == [i \in 1..n |-> 0]

\* File names: "a", "b", "0z" and "1\x15" (two names with the same hash),
\* "a.ksky" (an extension with a default alignment), "n.q", "f.q" and "g.q" (an
\* extension outside the factory table) and "a.bas" (one inside it)
NameA == <<97>>
NameB == <<98>>
Name0z == <<48, 122>>
Name1x == <<49, 21>>
NameKsky == <<97, 46>> \o ExtKsky
NameNq == <<110, 46, 113>>
NameFq == <<102, 46, 113>>
NameGq == <<103, 46, 113>>
NameBas == <<97, 46>> \o ExtBas

\* A payload of 33 bytes with BOM bytes at 0xC, a shift at 0xE and its own
\* length at 0x1C, in the byte order given
NewBinaryPayload(bom, size_bytes, shift) ==
    Zeros(12) \o bom \o <<shift>> \o Zeros(13) \o size_bytes \o <<0>>

\* A payload of 41 bytes with "FLIM" 0x28 bytes before its end and a big-endian
\* u16 alignment 8 bytes before its end; `b` is the byte before that u16
BflimPayload(alignment, b) ==
    <<0>> \o FLIM_MAGIC \o Zeros(27) \o <<b>>
        \o <<alignment \div 256, alignment % 256>> \o Zeros(6)

FilePool ==
    { [name |-> NameA, data |-> <<>>],
      [name |-> Name0z, data |-> <<1>>],
      [name |-> Name1x, data |-> <<2, 3, 4>>],
      [name |-> NameKsky, data |-> <<5, 6, 7>>],
      [name |-> NameNq, data |-> NewBinaryPayload(<<254, 255>>, <<33, 0, 0, 0>>, 3)],
      [name |-> NameBas, data |-> NewBinaryPayload(<<254, 255>>, <<33, 0, 0, 0>>, 3)],
      [name |-> NameFq, data |-> BflimPayload(3, 0)],
      [name |-> NameGq, data |-> BflimPayload(0, 255)] }

QueryNames == {NameA, NameB, Name0z, Name1x, NameKsky, <<122>>}

Endians == {"Big", "Little"}
AlignmentPool == {3, 16}
ExtPool == {ExtKsky, ExtQ}

----------------------------------------------------------------------------
(* The state machine: a caller that builds a writer, serializes it, reads   *)
(* the archive back and takes a new writer from the reader.                 *)

NoOrigin == [known |-> FALSE, bytes |-> <<>>, made_by |-> <<>>]

Call(op, arg, overflow_checks, r) ==
    [op |-> op, arg |-> arg, overflow_checks |-> overflow_checks, r |-> r]
NoCall == Call("", <<>>, FALSE, NoResult)

Init ==
    /\ writer \in {SarcWriter_new(e) : e \in Endians}
    /\ out = NoResult
    /\ prev = NoResult
    /\ origin = NoOrigin
    /\ buf = <<>>
    /\ sarc = NoResult
    /\ res = NoCall

\* A mutation of the writer: the caller lets go of what it got from it before
Mutate(w) ==
    /\ writer' = w
    /\ out' = NoResult
    /\ prev' = NoResult
    /\ origin' = NoOrigin
    /\ buf' = <<>>
    /\ sarc' = NoResult
    /\ res' = NoCall

\* writer.files.insert(name, data)
AddFile ==
    \E f \in FilePool :
        /\ \/ Len(writer.files) < MaxFiles
           \/ \E i \in 1..Len(writer.files) : writer.files[i].name = f.name
        /\ Mutate([writer EXCEPT !.files = IndexMapInsert(@, f.name, f.data)])

SetEndian ==
    \E e \in Endians :
        Mutate([writer EXCEPT !.endian = e])

SetLegacyMode ==
    \E v \in BOOLEAN :
        Mutate([writer EXCEPT !.legacy = v])

SetMinAlignment ==
    \E a \in AlignmentPool :
        Mutate(set_min_alignment(writer, a).writer)

AddAlignmentRequirement ==
    \E ext \in ExtPool, a \in AlignmentPool :
        Mutate(add_alignment_requirement(writer, ext, a).writer)

\* write_to_bytes: the writer is left sorted and with the default alignments;
\* the value kept is the returned buffer, with the per-file alignments the call
\* computed
WriteToBytes ==
    /\ prev.kind = "None"
    /\ \E w \in {write_to_bytes(writer)} :
        /\ writer' = w.writer
        /\ out' = Ok([bytes |-> w.bytes, alignments |-> w.alignments])
    /\ prev' = out
    /\ UNCHANGED <<origin, buf, sarc, res>>

\* Sarc::new on the buffer write_to_bytes returned
ReadBack ==
    /\ out.kind = "Ok"
    /\ sarc.kind = "None"
    /\ buf' = out.value.bytes
    /\ sarc' = Sarc_new(out.value.bytes)
    /\ res' = NoCall
    /\ UNCHANGED <<writer, out, prev, origin>>

\* Sarc::new on a buffer from elsewhere
Open ==
    /\ out.kind = "None"
    /\ sarc.kind = "None"
    /\ sarc' = Sarc_new(buf)
    /\ UNCHANGED <<writer, out, prev, origin, buf, res>>

GetFile ==
    /\ sarc.kind = "Ok"
    /\ res = NoCall
    /\ \E n \in QueryNames, oc \in BOOLEAN :
        res' = Call("get_file", n, oc, get_file(sarc.value, n, oc))
    /\ UNCHANGED <<writer, out, prev, origin, buf, sarc>>

FileAt ==
    /\ sarc.kind = "Ok"
    /\ res = NoCall
    /\ \E i \in 0..(MaxFiles + 1), oc \in BOOLEAN :
        res' = Call("file_at", i, oc, file_at(sarc.value, i, oc))
    /\ UNCHANGED <<writer, out, prev, origin, buf, sarc>>

Files ==
    /\ sarc.kind = "Ok"
    /\ res = NoCall
    /\ \E oc \in BOOLEAN :
        res' = Call("files", <<>>, oc, files(sarc.value, oc))
    /\ UNCHANGED <<writer, out, prev, origin, buf, sarc>>

GuessMinAlignment ==
    /\ sarc.kind = "Ok"
    /\ res = NoCall
    /\ \E oc \in BOOLEAN :
        res' = Call("guess_min_alignment", <<>>, oc, guess_min_alignment(sarc.value, oc))
    /\ UNCHANGED <<writer, out, prev, origin, buf, sarc>>

\* SarcWriter::from_sarc on the reader of the buffer write_to_bytes returned
FromSarc ==
    /\ sarc.kind = "Ok"
    /\ out.kind = "Ok"
    /\ \E oc \in BOOLEAN :
        LET r == from_sarc(sarc.value, oc)
        IN  IF r.kind = "Ok"
            THEN /\ writer' = r.value
                 /\ origin' = [known |-> TRUE, bytes |-> sarc.value.data,
                               made_by |-> writer]
                 /\ out' = NoResult
                 /\ prev' = NoResult
                 /\ buf' = <<>>
                 /\ sarc' = NoResult
                 /\ res' = Call("from_sarc", <<>>, oc, Ok(<<>>))
            ELSE /\ res' = Call("from_sarc", <<>>, oc, r)
                 /\ UNCHANGED <<writer, out, prev, origin, buf, sarc>>

Next ==
    \/ AddFile
    \/ SetEndian
    \/ SetLegacyMode
    \/ SetMinAlignment
    \/ AddAlignmentRequirement
    \/ WriteToBytes
    \/ ReadBack
    \/ Files
    \/ FromSarc

Spec == Init /\ [][Next]_vars

----------------------------------------------------------------------------
(* The reader on archives from elsewhere: archives the writer made, with    *)
(* fields overwritten and the end cut off.                                  *)

BaseWriters ==
    { SarcWriter_new("Little"),
      [SarcWriter_new("Little") EXCEPT
          !.files = << [name |-> NameB, data |-> <<104, 105>>],
                       [name |-> NameKsky, data |-> <<5, 6, 7>>] >>],
      [SarcWriter_new("Big") EXCEPT
          !.files = << [name |-> Name0z, data |-> <<1>>],
                       [name |-> Name1x, data |-> <<2, 3, 4>>] >>],
      [SarcWriter_new("Big") EXCEPT
          !.files = << [name |-> NameB, data |-> <<104, 105>>] >>],
      [SarcWriter_new("Little") EXCEPT
          !.files = << [name |-> NameA, data |-> <<>>] >>] }

\* Overwrites: the bytes to put at an offset, for an archive of n files in the
\* given endianness
Patch(at, bytes) == [at |-> at, bytes |-> bytes]

PatchPool(endian, n) ==
    LET fnt == 32 + 16 * n IN
    { Patch(0, <<88>>),                                   \* SARC magic
      Patch(4, U16Bytes(endian, 21)),                     \* header_size
      Patch(6, <<0>>),                                    \* BOM
      Patch(12, U32Bytes(endian, ToU32(0))),              \* data_offset
      Patch(12, U32Bytes(endian, <<0, 0, 0, 255>>)),
      Patch(16, U16Bytes(endian, 257)),                   \* version
      Patch(20, <<88>>),                                  \* SFAT magic
      Patch(24, U16Bytes(endian, 13)),                    \* SFAT header_size
      Patch(26, U16Bytes(endian, 16384 + n)),             \* num_files
      Patch(26, U16Bytes(endian, 0)),
      Patch(26, U16Bytes(endian, n + 1)),
      Patch(28, U32Bytes(endian, ToU32(1))),              \* hash_multiplier
      Patch(32, U32Bytes(endian, <<255, 255, 255, 255>>)),\* entry 0: name_hash
      Patch(36, U32Bytes(endian, ToU32(0))),              \* entry 0: rel_name_opt_offset
      Patch(36, U32Bytes(endian, <<255, 255, 255, 1>>)),
      Patch(40, U32Bytes(endian, ToU32(1))),              \* entry 0: data_begin
      Patch(40, U32Bytes(endian, <<255, 255, 255, 255>>)),
      Patch(44, U32Bytes(endian, ToU32(0))),              \* entry 0: data_end
      Patch(44, U32Bytes(endian, <<255, 255, 255, 0>>)),
      Patch(fnt, <<88>>),                                 \* SFNT magic
      Patch(fnt + 4, U16Bytes(endian, 9)),                \* SFNT header_size
      Patch(fnt + 8, <<255>>),                            \* the first name
      Patch(fnt + 9, <<1, 1, 1, 1, 1, 1, 1, 1>>) }

\* A patch lands only inside the buffer
ApplyPatch(b0, p0) ==
    CHOOSE r \in
        { [i \in 1..Len(b) |->
              IF i > p.at /\ i <= p.at + Len(p.bytes) THEN p.bytes[i - p.at] ELSE b[i]]
          : b \in {b0}, p \in {p0} } : TRUE

RECURSIVE ApplyPatches(_, _)
ApplyPatches(b, ps) ==
    IF ps = {} THEN b
    ELSE LET p == CHOOSE q \in ps : \A r \in ps : q.at <= r.at
         IN  ApplyPatches(ApplyPatch(b, p), ps \ {p})

\* Sets of at most k patches at distinct offsets
RECURSIVE PatchSetsUpTo(_, _)
PatchSetsUpTo(pool, k) ==
    IF k = 0 THEN {{}}
    ELSE LET smaller == PatchSetsUpTo(pool, k - 1)
         IN  smaller \cup
                 {ps \cup {p} : <<ps, p>> \in
                     {<<qs, q>> \in smaller \X pool : \A r \in qs : r.at /= q.at}}

PatchSets(pool) == PatchSetsUpTo(pool, MaxPatches)

\* The lengths an archive is cut to: none (its own length), or inside the
\* archive header, the FAT header or the FNT header
CutLengths(b, n) == {Len(b), 6, 16, 30, 36 + 16 * n}

Cut(b, len) == SubSeq(b, 1, IF len < Len(b) THEN len ELSE Len(b))

InputBuffers ==
    UNION { { Cut(ApplyPatches(b, ps), len) :
                  ps \in PatchSets(PatchPool(w.endian, Len(w.files))),
                  len \in CutLengths(b, Len(w.files)) }
            : <<w, b>> \in {<<v, write(v).bytes>> : v \in BaseWriters} }

InitReader ==
    /\ writer = SarcWriter_new("Little")
    /\ out = NoResult
    /\ prev = NoResult
    /\ origin = NoOrigin
    /\ buf \in InputBuffers
    /\ sarc = NoResult
    /\ res = NoCall

NextReader ==
    \/ Open
    \/ GetFile
    \/ FileAt
    \/ Files
    \/ GuessMinAlignment

SpecReader == InitReader /\ [][NextReader]_vars

----------------------------------------------------------------------------
(* What the claims speak of                                                *)

\* The fields of an archive, read off its bytes
HeaderFileSize(b, endian) == ReadU32(endian, b, 8)
HeaderDataOffset(b, endian) == ReadU32(endian, b, 12)
FatNameHash(b, endian, i) == ReadU32(endian, b, 32 + 16 * i)
FatDataBegin(b, endian, i) == ReadU32(endian, b, 32 + 16 * i + 8)
FatDataEnd(b, endian, i) == ReadU32(endian, b, 32 + 16 * i + 12)

U32Le(a, b) == ~U32Lt(b, a)

DistinctHashes(fs, multiplier) ==
    \A i, j \in 1..Len(fs) :
        i /= j => hash_name(multiplier, fs[i].name) /= hash_name(multiplier, fs[j].name)

\* The archive invariants of the format: the header's file_size is the length
\* of the archive, and every entry lies in order inside it
ValidArchive(b) ==
    LET r == Sarc_new(b) IN
    /\ r.kind = "Ok"
    /\ HeaderFileSize(b, r.value.endian) = ToU32(Len(b))
    /\ \A i \in 0..(r.value.num_files - 1) :
          LET e == ReadFatEntry(r.value, i)
              last == U32Add(r.value.data_offset, e.data_end)
          IN  /\ U32Le(e.data_begin, e.data_end)
              /\ ~last.overflow
              /\ U32Le(last.sum, ToU32(Len(b)))

\* The archive was written under the default rules: minimum alignment 4, legacy
\* mode off, hash multiplier 0x65 and no alignment requirement but the defaults
DefaultRules(made_by) ==
    /\ made_by.hash_multiplier = ToU32(101)
    /\ made_by.min_alignment = 4
    /\ made_by.legacy = FALSE
    /\ made_by.alignment_map =
           add_default_alignments(SarcWriter_new(made_by.endian)).alignment_map

\* What a reader of the written archive should iterate over
ExpectedFiles(fs) == [i \in 1..Len(fs) |-> [name |-> Some(fs[i].name), data |-> fs[i].data]]

\* The archive holds the files it was written from
HoldsFiles(b, fs) ==
    LET r == Sarc_new(b) IN
    /\ r.kind = "Ok"
    /\ \A oc \in BOOLEAN : files(r.value, oc) = Ok(ExpectedFiles(fs))

\* The input archives of the round trip: valid, holding their files, and laid
\* out by the default rules
RoundTripInput ==
    /\ origin.known
    /\ DefaultRules(origin.made_by)
    /\ ValidArchive(origin.bytes)
    /\ HoldsFiles(origin.bytes, origin.made_by.files)

----------------------------------------------------------------------------
(* Claims on the writer                                                    *)

C2_WriteThenRead ==
    (/\ out.kind = "Ok"
     /\ sarc.kind /= "None"
     /\ DistinctHashes(writer.files, writer.hash_multiplier))
        => /\ sarc.kind = "Ok"
           /\ file_count(sarc.value) = Len(writer.files)
           /\ res.op = "files" => res.r = Ok(ExpectedFiles(writer.files))

\* C5: in a written archive every per-file alignment is a power of two and
\* divides the absolute offset of the file's payload.
C5_AlignmentInvariant ==
    out.kind = "Ok" =>
        \A i \in 1..Len(writer.files) :
            LET b == out.value.bytes
                a == out.value.alignments[i]
                at == U32Add(HeaderDataOffset(b, writer.endian),
                             FatDataBegin(b, writer.endian, i - 1)).sum
            IN  /\ IsPowerOfTwo(a)
                /\ U32Mod(at, a) = 0

\* C6: in a written archive the name hashes of the FAT ascend strictly.
C6_FatStrictlyAscending ==
    out.kind = "Ok" =>
        \A i \in 0..(Len(writer.files) - 2) :
            U32Lt(FatNameHash(out.value.bytes, writer.endian, i),
                  FatNameHash(out.value.bytes, writer.endian, i + 1))

\* C10: a second write_to_bytes with no mutation since the first returns the
\* same bytes as the first.
C10_Reentrant ==
    prev.kind = "Ok" => out.value.bytes = prev.value.bytes

C10_Witness ==
    /\ prev.kind = "Ok"
    /\ out.value.bytes = prev.value.bytes
    /\ Len(writer.files) = 2
    /\ writer.legacy
    /\ ExtQ \in DOMAIN writer.alignment_map
    /\ \E i \in 1..2 : ExtensionOf(writer.files[i].name) = ExtQ

----------------------------------------------------------------------------
(* Claims on the reader                                                    *)

\* The FAT of a reader lies inside its buffer
FatInBuffer(s) == s.entries_offset + 16 * s.num_files <= Len(s.data)

FatHashes(s) == {ReadFatEntry(s, i).name_hash : i \in 0..(s.num_files - 1)}

\* The FAT is sorted by hash, ascending
FatSorted(s) ==
    \A i \in 0..(s.num_files - 2) :
        U32Le(ReadFatEntry(s, i).name_hash, ReadFatEntry(s, i + 1).name_hash)

\* C3: get_file of the name of a file of the reader returns Some entry with
\* the payload of that file.
C3_LookupFindsFile ==
    (sarc.kind = "Ok" /\ res.op = "get_file") =>
        \A i \in 0..(sarc.value.num_files - 1) :
            LET f == file_at(sarc.value, i, res.overflow_checks)
            IN  (f.kind = "Ok" /\ f.value.name = Some(res.arg))
                    => /\ res.r.kind = "Ok"
                       /\ res.r.value /= None
                       /\ res.r.value[1].data = f.value.data

\* C4: on a reader with a hash-sorted FAT, get_file of a name whose hash is the
\* hash of no entry returns Ok(None).
C4_LookupMiss ==
    (/\ sarc.kind = "Ok"
     /\ res.op = "get_file"
     /\ FatInBuffer(sarc.value)
     /\ FatSorted(sarc.value)
     /\ hash_name(sarc.value.hash_multiplier, res.arg) \notin FatHashes(sarc.value))
        => res.r = Ok(None)

\* C7: on a reader Sarc::new returned, file_at, get_file, files and
\* guess_min_alignment end with a value or an error and never abort.
C7_LookupNeverPanics ==
    res.op \in {"file_at", "get_file", "files", "guess_min_alignment"}
        => res.r.kind /= "Panic"

\* C9: guess_min_alignment returns a power of two that is at least 4.
C9_GuessAtLeastFour ==
    res.op = "guess_min_alignment"
        => (res.r.kind = "Ok" /\ res.r.value \in {x \in 4..8192 : IsPowerOfTwo(x)})

\* The byte-order mark at 0x06: FE FF is big-endian, FF FE little-endian
BomOf(b) ==
    IF Len(b) < 8 THEN "invalid"
    ELSE IF b[7] = 254 /\ b[8] = 255 THEN "Big"
    ELSE IF b[7] = 255 /\ b[8] = 254 THEN "Little"
    ELSE "invalid"

\* The fields Sarc::new validates, in the order of the format: the length the
\* buffer must have for the header of the field, and whether the field is wrong
HeaderChecks(b) ==
    LET e == BomOf(b)
        n == IF Len(b) >= 32 /\ e /= "invalid" THEN ReadU16(e, b, 26) ELSE 0
        fnt == 32 + 16 * n
        has(need) == e /= "invalid" /\ Len(b) >= need
    IN  << [field |-> "SARC magic", need |-> 20,
            wrong |-> Len(b) >= 4 /\ SubSeq(b, 1, 4) /= <<83, 65, 82, 67>>],
           [field |-> "SARC version", need |-> 20,
            wrong |-> has(20) /\ ReadU16(e, b, 16) /= 256],
           [field |-> "SARC header size", need |-> 20,
            wrong |-> has(20) /\ ReadU16(e, b, 4) /= 20],
           [field |-> "SFAT magic", need |-> 32,
            wrong |-> has(32) /\ SubSeq(b, 21, 24) /= <<83, 70, 65, 84>>],
           [field |-> "SFAT header size", need |-> 32,
            wrong |-> has(32) /\ ReadU16(e, b, 24) /= 12],
           [field |-> "SFAT file count", need |-> 32,
            wrong |-> has(32) /\ n >= 16384],
           [field |-> "SFNT magic", need |-> fnt + 8,
            wrong |-> has(fnt + 8) /\ SubSeq(b, fnt + 1, fnt + 4) /= <<83, 70, 78, 84>>],
           [field |-> "SFNT header size", need |-> fnt + 8,
            wrong |-> has(fnt + 8) /\ ReadU16(e, b, fnt + 4) /= 8],
           [field |-> "name table offset", need |-> fnt + 8,
            wrong |-> has(fnt + 8) /\ U32Lt(ReadU32(e, b, 12), ToU32(fnt + 8))] >>

OffendingFields(b) ==
    {HeaderChecks(b)[k].field : k \in {j \in 1..9 : HeaderChecks(b)[j].wrong}}

\* C8, as stated: whenever one of the listed fields is wrong Sarc::new returns
\* an InvalidData error naming an offending field, and it returns a reader only
\* when none is wrong.
C8_InvalidDataWheneverWrong ==
    sarc.kind /= "None" =>
        /\ OffendingFields(buf) /= {}
              => (sarc.kind = "Err" /\ sarc.err = "InvalidData"
                                    /\ sarc.field \in OffendingFields(buf))
        /\ sarc.kind = "Ok" => OffendingFields(buf) = {}

\* C8, amended: when the byte-order mark is valid, Sarc::new goes through the
\* fields in order; at the first field that is wrong or whose header the buffer
\* does not hold it returns InvalidData naming the field, or a parse error when
\* the header is cut short; it returns a reader only when no field is wrong.
\* With an invalid byte-order mark the error is a parse error.
C8_FirstOffendingField ==
    sarc.kind /= "None" =>
        IF BomOf(buf) = "invalid" THEN sarc = Err("ParseError")
        ELSE LET cs == HeaderChecks(buf)
                 bad == {k \in 1..9 : Len(buf) < cs[k].need \/ cs[k].wrong}
             IN  IF bad = {} THEN sarc.kind = "Ok"
                 ELSE LET k == CHOOSE j \in bad : \A i \in bad : j <= i
                      IN  IF Len(buf) < cs[k].need THEN sarc = Err("ParseError")
                          ELSE sarc = InvalidData(cs[k].field)

C8_Witness ==
    /\ BomOf(buf) = "Big"
    /\ sarc = InvalidData("SFNT header size")
    /\ Cardinality(OffendingFields(buf)) = 1

----------------------------------------------------------------------------
(* Claims on the layout of the written archive                             *)

FatNumFiles(b, endian) == ReadU16(endian, b, 26)

\* C11: in a written archive the header's file_size is the length of the
\* returned buffer, and every entry has data_begin <= data_end and
\* data_offset + data_end <= file_size.
C11_FileSizeIsLength ==
    out.kind = "Ok" =>
        LET b == out.value.bytes
            e == writer.endian
        IN  /\ HeaderFileSize(b, e) = ToU32(Len(b))
            /\ \A i \in 0..(Len(writer.files) - 1) :
                  LET last == U32Add(HeaderDataOffset(b, e), FatDataEnd(b, e, i))
                  IN  /\ U32Le(FatDataBegin(b, e, i), FatDataEnd(b, e, i))
                      /\ ~last.overflow
                      /\ U32Le(last.sum, HeaderFileSize(b, e))

\* C12, as stated: a Little-endian writer without files serializes to 0x20
\* bytes, with data_offset = 0x20 and num_files = 0.
C12_EmptyArchiveIs0x20 ==
    (out.kind = "Ok" /\ writer.endian = "Little" /\ writer.files = <<>>) =>
        /\ Len(out.value.bytes) = 32
        /\ HeaderDataOffset(out.value.bytes, "Little") = ToU32(32)
        /\ FatNumFiles(out.value.bytes, "Little") = 0

\* C12, amended: a Little-endian writer without files serializes to 0x28
\* bytes (the 0x14-byte header, the 0x0C-byte SFAT header and the 0x08-byte
\* SFNT header), with file_size = data_offset = 0x28 and num_files = 0.
C12_EmptyArchiveIs0x28 ==
    (out.kind = "Ok" /\ writer.endian = "Little" /\ writer.files = <<>>) =>
        /\ Len(out.value.bytes) = 40
        /\ HeaderFileSize(out.value.bytes, "Little") = ToU32(40)
        /\ HeaderDataOffset(out.value.bytes, "Little") = ToU32(40)
        /\ FatNumFiles(out.value.bytes, "Little") = 0

C12_Witness ==
    /\ out.kind = "Ok"
    /\ writer.endian = "Little"
    /\ writer.files = <<>>
    /\ writer.min_alignment = 16
    /\ Len(out.value.bytes) = 40

----------------------------------------------------------------------------
(* Claims on the alignment rules                                           *)

\* What the content of a file contributes to its alignment: the contributions
\* of get_alignment_for_file other than min_alignment and the extension's
ContentAlignment(w, name, data) ==
    get_alignment_for_file([w EXCEPT !.min_alignment = 1, !.alignment_map = EmptyMap],
                           name, data)

\* C13: a serialization uses, for every file whose extension has a requirement
\* a in the writer's alignment map when write_to_bytes is called, the alignment
\* lcm(min_alignment, a, content-derived contributions), whichever extension
\* it is.
C13_RequirementUsed ==
    [][WriteToBytes =>
          \A i \in 1..Len(writer'.files) :
              LET f == writer'.files[i]
                  ext == ExtensionOf(f.name)
              IN  ext \in DOMAIN writer.alignment_map
                      => out'.value.alignments[i]
                             = lcm(lcm(writer.min_alignment, writer.alignment_map[ext]),
                                   ContentAlignment(writer, f.name, f.data))]_vars

----------------------------------------------------------------------------
(* The alignment read off a payload's own header: a caller that hands one   *)
(* payload to get_alignment_for_new_binary_file.                            *)

MaxShift == 3
MaxTail == 1

\* The BOMs at 0xC: the two orders of FE FF, and two pairs that are no BOM
SniffBoms == {<<254, 255>>, <<255, 254>>, <<254, 254>>, <<0, 0>>}

\* The u32 at 0x1C: the payload's length in either order, or another number
SniffSizes(len) == {U32Bytes("Little", ToU32(len)), U32Bytes("Big", ToU32(len)), <<1, 2, 3, 4>>}

\* Payloads of 0x20 bytes and a little more
SniffLengths == 32..(33 + MaxTail)

SniffPayload(len, bom, size_bytes, shift) ==
    SubSeq(NewBinaryPayload(bom, size_bytes, shift) \o Zeros(MaxTail), 1, len)

SniffInputs ==
    { SniffPayload(len, bom, size_bytes, shift) :
          len \in SniffLengths, bom \in SniffBoms,
          size_bytes \in UNION {SniffSizes(l) : l \in SniffLengths},
          shift \in 0..MaxShift }

InitSniff ==
    /\ writer = SarcWriter_new("Little")
    /\ out = NoResult
    /\ prev = NoResult
    /\ origin = NoOrigin
    /\ buf \in SniffInputs
    /\ sarc = NoResult
    /\ res = NoCall

\* 1 << data[0xE] aborts where overflow checks are on and the amount is 64 or
\* more; the payloads of 0x20 bytes or less return before the byte is read
GetAlignmentForNewBinaryFile ==
    /\ res = NoCall
    /\ \E oc \in BOOLEAN :
        LET a == get_alignment_for_new_binary_file(buf)
            shifted == Len(buf) > 32 /\ a /= 1
        IN  res' = Call("get_alignment_for_new_binary_file", <<>>, oc,
                        IF oc /\ shifted /\ buf[15] >= 64 THEN Panic ELSE Ok(a))
    /\ UNCHANGED <<writer, out, prev, origin, buf, sarc>>

NextSniff == GetAlignmentForNewBinaryFile

SpecSniff == InitSniff /\ [][NextSniff]_vars

\* The u32 at 0x1C in the byte order the claim gives to the BOM at 0xC:
\* FE FF is Big, FF FE is Little
SizeByBom(data) ==
    LET bom == SubSeq(data, 13, 14)
    IN  IF bom = <<254, 255>> THEN Some(ReadU32("Big", data, 28))
        ELSE IF bom = <<255, 254>> THEN Some(ReadU32("Little", data, 28))
        ELSE None

\* C14: a payload longer than 0x20 bytes with a BOM at 0xC contributes
\* 1 << data[0xE] exactly when the u32 at 0x1C, decoded in the BOM's byte
\* order (FE FF Big, FF FE Little), is the payload's length, and 1 otherwise;
\* a payload without a BOM there or of at most 0x20 bytes contributes 1.
C14_ShiftWhenSizeMatches ==
    res.op = "get_alignment_for_new_binary_file" =>
        res.r = Ok(IF Len(buf) > 32 /\ SizeByBom(buf) = Some(ToU32(Len(buf)))
                   THEN 2 ^ buf[15]
                   ELSE 1)

====
